---------------------------- MODULE Spec2Model ----------------------------
(***************************************************************************)
(* A model of the metrics-mini aggregation core: attribute-set identities  *)
(* (attributes.rs), accumulators (metricpoint.rs), the counter with its    *)
(* RwLock-protected map and zero-attribute accumulator (counter.rs), the   *)
(* meter registry (meter.rs) and the meter provider (meter_provider.rs).   *)
(*                                                                         *)
(* Numbers are TLC integers.  Every u32/u64/usize value of a run is far    *)
(* below 2^31, so no machine addition wraps inside the model; SpecWidth    *)
(* alone works with sums of 2^32 and more, written in 16-bit limbs.        *)
(***************************************************************************)
EXTENDS Integers, Sequences, FiniteSets, TLC

(***************************************************************************)
(* common.rs: keys, values, key/value pairs.                               *)
(* A key is the number n standing for the string "key<n>"; the order of    *)
(* the numbers is the lexicographic order of those strings.  A value is a  *)
(* tagged union; only the String and F64 variants are drawn.  An F64 is    *)
(* named by its bit pattern: "NaN", "+0.0" or "-0.0".                      *)
(***************************************************************************)
KV(k, kind, bits) == [key |-> k, value |-> [kind |-> kind, bits |-> bits]]

\* f64 == f64 (IEEE 754): NaN differs from everything, the two zeros agree.
F64Eq(x, y) ==
    /\ x # "NaN"
    /\ y # "NaN"
    /\ \/ x = y
       \/ {x, y} = {"+0.0", "-0.0"}

\* #[derive(PartialEq)] on Value: same variant and equal payloads.
ValueEq(a, b) ==
    /\ a.kind = b.kind
    /\ IF a.kind = "F64" THEN F64Eq(a.bits, b.bits) ELSE a.bits = b.bits

\* #[derive(PartialEq)] on KeyValue: key and value.
KeyValueEq(a, b) == a.key = b.key /\ ValueEq(a.value, b.value)

\* Vec<KeyValue> == Vec<KeyValue>: same length, equal element for element.
AttributesEq(s, t) ==
    /\ Len(s) = Len(t)
    /\ \A i \in 1..Len(s) : KeyValueEq(s[i], t[i])

\* What a value feeds to the hasher: a function of the variant's payload;
\* an F64 is hashed by its bit pattern (F64Hashable), so each of NaN, +0.0
\* and -0.0 has a code of its own.
ValueBitsCode(v) ==
    CASE v.bits = "value1" -> 1
      [] v.bits = "value2" -> 2
      [] v.bits = "value3" -> 3
      [] v.bits = "NaN"    -> 5
      [] v.bits = "+0.0"   -> 6
      [] v.bits = "-0.0"   -> 7

\* impl Hash for KeyValue: the key, then the value, written into the hasher
\* state h.  The 64-bit SipHash state is scaled down to five values so that
\* collisions between different sequences occur within the model.
HashKeyValue(h, kv) == (h * 3 + kv.key * 3 + ValueBitsCode(kv.value) + 1) % 5

\* Ord for KeyValue: by key only.
KeyLessEq(a, b) == a.key <= b.key

(***************************************************************************)
(* attributes.rs: MetricAttributes.                                        *)
(***************************************************************************)
RECURSIVE FoldHash(_, _)
FoldHash(h, values) ==
    IF values = <<>> THEN h
    ELSE FoldHash(HashKeyValue(h, Head(values)), Tail(values))

\* calculate_hash: a fresh hasher folded over the items in sequence order.
calculate_hash(values) == FoldHash(0, values)

\* MetricAttributes::new and new_from_vec: the sequence verbatim and its hash.
MetricAttributesNew(attributes) ==
    [attributes |-> attributes, hash_value |-> calculate_hash(attributes)]

\* Faulty variant: identities compared by hash alone.
MetricAttributesEqHashOnly(a, b) == a.hash_value = b.hash_value

\* #[derive(PartialEq, Eq)] on MetricAttributes: attributes, then hash_value.
MetricAttributesEq(a, b) ==
    /\ AttributesEq(a.attributes, b.attributes)
    /\ a.hash_value = b.hash_value

(***************************************************************************)
(* counter.rs line 92: attributes_as_vec.sort_by(|a, b| a.key.cmp(&b.key)) *)
(* is a stable sort by key: an insertion sort that never moves an item     *)
(* before one of an equal key.                                             *)
(***************************************************************************)
RECURSIVE InsertByKey(_, _)
InsertByKey(kv, sorted) ==
    IF sorted = <<>> THEN <<kv>>
    ELSE IF KeyLessEq(Head(sorted), kv)
         THEN <<Head(sorted)>> \o InsertByKey(kv, Tail(sorted))
         ELSE <<kv>> \o sorted

RECURSIVE SortByKey(_)
SortByKey(s) ==
    IF s = <<>> THEN <<>>
    ELSE InsertByKey(s[Len(s)], SortByKey(SubSeq(s, 1, Len(s) - 1)))


(***************************************************************************)
(* Bounds and the small sets the inputs are drawn from.                    *)
(***************************************************************************)
\* API calls started in one run.
MaxCalls == 4

Threads == {"t1", "t2", "t3"}
NoThread == "none"

\* The u32 values handed to Counter.add.
Values == {1, 2}

kv1 == KV(1, "String", "value1")
kv2 == KV(2, "String", "value2")
kvNaN == KV(1, "F64", "NaN")

(***************************************************************************)
(* State.  Objects live in arenas indexed from 1 (0 is "no object"): an    *)
(* Arc<CounterInner> or Arc<MeterInner> is the index of its object, and a  *)
(* MetricPoint (Arc<MetricPointInner>) is an index into the arena of its   *)
(* counter.                                                                *)
(***************************************************************************)
VARIABLES
    meters,         \* MeterProviderInner.meters: meter name -> meter, 0 if absent
    providerLock,   \* the thread inside the Mutex of MeterProviderInner.meters
    meterName,      \* MeterInner.name, by meter
    meterCounters,  \* MeterInner.counters, by meter: counter name -> counter, 0 if absent
    meterLock,      \* the thread inside the Mutex of MeterInner.counters, by meter
    ctrName,        \* CounterInner.name, by counter
    ctrMap,         \* CounterInner.metric_points_map, by counter: a sequence of
                    \* entries [key |-> MetricAttributes, point |-> MetricPoint]
    sums,           \* MetricPointInner.sum of the accumulators of a counter
    ctrZero,        \* CounterInner.zero_attribute_point, by counter
    readers,        \* threads holding a read guard of the counter's RwLock
    writer,         \* the thread holding the write guard of the counter's RwLock
    pc,             \* where each thread stands in the call it is executing
    loc,            \* the locals of that call
    ret,            \* what the thread's last completed call returned
    calls,          \* API calls started so far
    obs,            \* history: per returned Metric, what its drain saw
    added,          \* history, by counter: canonical attribute list -> total,
                    \* number and orderings of the labeled adds completed since
                    \* the last drain
    zeroAdded,      \* history, by counter: total of all zero-attribute adds
    zeroReported,   \* history, by counter: total of all zero-attribute rows read
    quiet,          \* history, by counter: the collects under way that no step of
                    \* an add has touched (armed), whether such a collect has
                    \* completed untouched since (next), the collects begun
                    \* after it, still untouched (observers), and what the last
                    \* add step, if a zero-attribute add, ran beside (beside)
    handed,         \* history: every handle a registry call returned, with its arguments
    atCall          \* history: the counters registered in the provider when the
                    \* thread called MeterProvider.collect

vars == <<meters, providerLock, meterName, meterCounters, meterLock, ctrName,
          ctrMap, sums, ctrZero, readers, writer, pc, loc, ret, calls, obs,
          added, zeroAdded, zeroReported, quiet, handed, atCall>>

registryVars == <<meters, providerLock, meterName, meterCounters, meterLock, ctrName,
                  handed, atCall>>
historyVars == <<obs, added, zeroAdded, zeroReported, quiet>>

\* What a drain saw (history): the counter, the keys of the map and the
\* accumulator behind each, the adds completed since the previous drain, and
\* whether the collect ran wholly inside a quiet period.
NoDrain == [ctr |-> 0, keys |-> <<>>, points |-> <<>>, added |-> <<>>, quiet |-> FALSE]

IdleLoc ==
    [top |-> "none", ctr |-> 0, value |-> 0, attributes |-> <<>>, point |-> 0,
     metric_points |-> <<>>, drain |-> NoDrain, meter |-> 0, mtodo |-> {},
     ctodo |-> {}, metrics |-> <<>>, seen |-> <<>>]

NoReturn == [kind |-> "none"]

Counters == 1..Len(ctrName)
Meters == 1..Len(meterName)

(***************************************************************************)
(* metricpoint.rs                                                          *)
(***************************************************************************)
\* MetricPointInner::new: AtomicU64::new(1).
MetricPointInit == 1

\* MetricPointInner::add: fetch_add(value as u64).
MetricPointAdd(sum, value) == sum + value

\* MetricPointInner::get_sum: load() as u32.  The cast keeps the low 32 bits,
\* which is the whole value for every sum a TLC integer can hold.
MetricPointGetSum(sum) == sum

(***************************************************************************)
(* std::sync::RwLock as counter.rs uses it.                                *)
(***************************************************************************)
\* metric_points_map.read() returns once no thread holds the write guard.
CanRead(c) == writer[c] = NoThread

\* metric_points_map.write() returns once no thread holds any guard.
CanWrite(c) == writer[c] = NoThread /\ readers[c] = {}

(***************************************************************************)
(* std::collections::HashMap as counter.rs uses it: the entries in some    *)
(* iteration order, found by Eq of their keys.  (Hash and Eq of            *)
(* MetricAttributes agree: equal identities have equal hash_value.)        *)
(***************************************************************************)
\* HashMap::get: the MetricPoint of the entry whose key equals k, 0 if none.
MapGet(m, k) ==
    IF \E i \in 1..Len(m) : MetricAttributesEq(m[i].key, k)
    THEN m[CHOOSE i \in 1..Len(m) : MetricAttributesEq(m[i].key, k)].point
    ELSE 0

\* HashMap::insert: replaces the value of the entry with an equal key (the old
\* key stays), or adds an entry.
MapInsert(m, k, p) ==
    IF \E i \in 1..Len(m) : MetricAttributesEq(m[i].key, k)
    THEN LET i == CHOOSE j \in 1..Len(m) : MetricAttributesEq(m[j].key, k)
         IN  [m EXCEPT ![i].point = p]
    ELSE Append(m, [key |-> k, point |-> p])

\* Faulty variant: the map is iterated, not drained.
MapAfterIter(m) == m

\* HashMap::drain (counter.rs 57): once the iterator is dropped the map is empty.
MapAfterDrain(m) == <<>>

\* Faulty variant: one row per accumulator, not per key.
DrainRowsDedup(m, s) ==
    LET first(i) == \A j \in 1..(i - 1) : m[j].point # m[i].point
        keep == SelectSeq([i \in 1..Len(m) |-> i], first)
    IN  [n \in 1..Len(keep) |->
            <<m[keep[n]].key.attributes, MetricPointGetSum(s[m[keep[n]].point])>>]

\* counter.rs 57-59: one (attributes, sum) row per entry drained from the map.
DrainRows(m, s) ==
    [i \in 1..Len(m) |-> <<m[i].key.attributes, MetricPointGetSum(s[m[i].point])>>]

(***************************************************************************)
(* History helpers (not part of the program).                              *)
(***************************************************************************)
\* A total order on key/value pairs, used only to name a logical attribute set.
KVRank(kv) == kv.key * 8 + ValueBitsCode(kv.value)

RECURSIVE InsertByRank(_, _)
InsertByRank(kv, sorted) ==
    IF sorted = <<>> THEN <<kv>>
    ELSE IF KVRank(Head(sorted)) <= KVRank(kv)
         THEN <<Head(sorted)>> \o InsertByRank(kv, Tail(sorted))
         ELSE <<kv>> \o sorted

\* The canonical name of the multiset of pairs in s.
RECURSIVE Canon(_)
Canon(s) == IF s = <<>> THEN <<>> ELSE InsertByRank(Head(s), Canon(Tail(s)))

\* One more completed add of value, submitted as attributes, for the logical
\* attribute set of that list.
Credit(f, attributes, value) ==
    LET L == Canon(attributes)
    IN  IF L \in DOMAIN f
        THEN [f EXCEPT ![L] = [total |-> @.total + value, n |-> @.n + 1,
                               orders |-> @.orders \cup {attributes}]]
        ELSE f @@ (L :> [total |-> value, n |-> 1, orders |-> {attributes}])

NoAdds == <<>>

NoQuiet == [armed |-> {}, next |-> FALSE, observers |-> {}, beside |-> "none"]

\* Any step of an add on counter c ends the quiet period of every observer.
Touch(c) == quiet' = [quiet EXCEPT ![c] = NoQuiet]

\* A collect on counter c begins for thread t: t becomes an observer of the
\* quiet period if one is running.
Enter(c, t) ==
    quiet' = [quiet EXCEPT ![c] =
                [armed |-> @.armed \cup {t},
                 next |-> @.next,
                 observers |-> IF @.next THEN @.observers \cup {t} ELSE @.observers,
                 beside |-> @.beside]]

Unit == [kind |-> "unit"]

\* The thread's call returns r; its locals are dropped.
Return(t, r, seen) ==
    /\ pc' = [pc EXCEPT ![t] = "idle"]
    /\ loc' = [loc EXCEPT ![t] = IdleLoc]
    /\ ret' = [ret EXCEPT ![t] = r]
    /\ obs' = [obs EXCEPT ![t] = seen]

\* A new API call starts on an idle thread.
CanCall(t) == pc[t] = "idle" /\ calls < MaxCalls

(***************************************************************************)
(* counter.rs: CounterInner::add                                           *)
(***************************************************************************)
\* What the last step of an add on counter c, if it was a zero-attribute add,
\* ran beside (history): a collect or an add holding the write guard of the
\* map, or neither.
Beside(c) ==
    IF writer[c] = NoThread THEN "none"
    ELSE IF pc[writer[c]] = "col_drain" THEN "collect" ELSE "add"

TouchZero(c) == quiet' = [quiet EXCEPT ![c] = [NoQuiet EXCEPT !.beside = Beside(c)]]

\* Faulty variant: the zero-attribute path takes the read lock of the map.
AddZeroAttributeUnderReadLock(t, c, value) ==
    /\ CanCall(t)
    /\ c \in Counters
    /\ CanRead(c)
    /\ calls' = calls + 1
    /\ ctrZero' = [ctrZero EXCEPT ![c] = @ + value]
    /\ zeroAdded' = [zeroAdded EXCEPT ![c] = @ + value]
    /\ TouchZero(c)
    /\ ret' = [ret EXCEPT ![t] = Unit]
    /\ obs' = [obs EXCEPT ![t] = <<>>]
    /\ UNCHANGED <<registryVars, ctrMap, sums, readers, writer, pc, loc, added,
                   zeroReported>>

\* Lines 76-80: empty attributes; one fetch_add on zero_attribute_point.
AddZeroAttribute(t, c, value) ==
    /\ CanCall(t)
    /\ c \in Counters
    /\ calls' = calls + 1
    /\ ctrZero' = [ctrZero EXCEPT ![c] = @ + value]
    /\ zeroAdded' = [zeroAdded EXCEPT ![c] = @ + value]
    /\ TouchZero(c)
    /\ ret' = [ret EXCEPT ![t] = Unit]
    /\ obs' = [obs EXCEPT ![t] = <<>>]
    /\ UNCHANGED <<registryVars, ctrMap, sums, readers, writer, pc, loc, added,
                   zeroReported>>

\* Faulty variant: the read guard is a temporary that
\* is gone once get() has returned.
ReadGuardDroppedAfterGet(c, t) == readers[c]

\* Lines 83-84: the read guard is a named local; it lives across get() and the
\* branch taken.
ReadGuardHeld(c, t) == readers[c] \cup {t}

\* Faulty variant: no is_empty() test (line 76) before the map is looked up.
AddLookupAnyList(t, c, value, attributes) ==
    /\ CanCall(t)
    /\ c \in Counters
    /\ CanRead(c)
    /\ calls' = calls + 1
    /\ LET metric_point == MapGet(ctrMap[c], MetricAttributesNew(attributes))
       IN  /\ loc' = [loc EXCEPT ![t] =
                        [IdleLoc EXCEPT !.top = "Counter.add", !.ctr = c,
                                        !.value = value, !.attributes = attributes,
                                        !.point = metric_point]]
           /\ pc' = [pc EXCEPT ![t] =
                        IF metric_point # 0 THEN "add_hit" ELSE "add_miss"]
    /\ readers' = [readers EXCEPT ![c] = ReadGuardHeld(c, t)]
    /\ Touch(c)
    /\ ret' = [ret EXCEPT ![t] = NoReturn]
    /\ obs' = [obs EXCEPT ![t] = <<>>]
    /\ UNCHANGED <<registryVars, ctrMap, sums, ctrZero, writer, added, zeroAdded,
                   zeroReported>>

\* Lines 76 and 82-84: the list is not empty (an empty one has returned through
\* the zero-attribute path); the identity of the attributes as given, the read
\* lock, get().
AddLookup(t, c, value, attributes) ==
    /\ CanCall(t)
    /\ c \in Counters
    /\ attributes # <<>>
    /\ CanRead(c)
    /\ calls' = calls + 1
    /\ LET metric_point == MapGet(ctrMap[c], MetricAttributesNew(attributes))
       IN  /\ loc' = [loc EXCEPT ![t] =
                        [IdleLoc EXCEPT !.top = "Counter.add", !.ctr = c,
                                        !.value = value, !.attributes = attributes,
                                        !.point = metric_point]]
           /\ pc' = [pc EXCEPT ![t] =
                        IF metric_point # 0 THEN "add_hit" ELSE "add_miss"]
    /\ readers' = [readers EXCEPT ![c] = ReadGuardHeld(c, t)]
    /\ Touch(c)
    /\ ret' = [ret EXCEPT ![t] = NoReturn]
    /\ obs' = [obs EXCEPT ![t] = <<>>]
    /\ UNCHANGED <<registryVars, ctrMap, sums, ctrZero, writer, added, zeroAdded,
                   zeroReported>>

\* Faulty variant: the hit path also counts the value
\* into zero_attribute_point.
AddHitAlsoCountsZero(t) ==
    /\ pc[t] = "add_hit"
    /\ LET c == loc[t].ctr
       IN  /\ sums' = [sums EXCEPT ![c][loc[t].point] =
                          MetricPointAdd(@, loc[t].value)]
           /\ ctrZero' = [ctrZero EXCEPT ![c] = @ + loc[t].value]
           /\ readers' = [readers EXCEPT ![c] = @ \ {t}]
           /\ added' = [added EXCEPT ![c] =
                          Credit(@, loc[t].attributes, loc[t].value)]
           /\ Touch(c)
    /\ Return(t, Unit, <<>>)
    /\ UNCHANGED <<registryVars, ctrMap, writer, calls, zeroAdded, zeroReported>>

\* Line 85, then the guard drops at the end of the function.
AddHit(t) ==
    /\ pc[t] = "add_hit"
    /\ LET c == loc[t].ctr
       IN  /\ sums' = [sums EXCEPT ![c][loc[t].point] =
                          MetricPointAdd(@, loc[t].value)]
           /\ readers' = [readers EXCEPT ![c] = @ \ {t}]
           /\ added' = [added EXCEPT ![c] =
                          Credit(@, loc[t].attributes, loc[t].value)]
           /\ Touch(c)
    /\ Return(t, Unit, <<>>)
    /\ UNCHANGED <<registryVars, ctrMap, ctrZero, writer, calls, zeroAdded,
                   zeroReported>>

\* Faulty variant: the read guard is kept across the miss path (line 87 left
\* out), so write() is asked for by a thread that still reads.
AddKeepRead(t) ==
    /\ pc[t] = "add_miss"
    /\ pc' = [pc EXCEPT ![t] = "add_write"]
    /\ Touch(loc[t].ctr)
    /\ UNCHANGED <<registryVars, ctrMap, sums, ctrZero, readers, writer, loc, ret,
                   calls, obs, added, zeroAdded, zeroReported>>

\* Line 87: drop(metric_points_map).
AddDropRead(t) ==
    /\ pc[t] = "add_miss"
    /\ readers' = [readers EXCEPT ![loc[t].ctr] = @ \ {t}]
    /\ pc' = [pc EXCEPT ![t] = "add_write"]
    /\ Touch(loc[t].ctr)
    /\ UNCHANGED <<registryVars, ctrMap, sums, ctrZero, writer, loc, ret, calls,
                   obs, added, zeroAdded, zeroReported>>

\* Line 89: metric_points_map.write().
AddWriteLock(t) ==
    /\ pc[t] = "add_write"
    /\ CanWrite(loc[t].ctr)
    /\ writer' = [writer EXCEPT ![loc[t].ctr] = t]
    /\ pc' = [pc EXCEPT ![t] = "add_sorted"]
    /\ Touch(loc[t].ctr)
    /\ UNCHANGED <<registryVars, ctrMap, sums, ctrZero, readers, loc, ret, calls,
                   obs, added, zeroAdded, zeroReported>>

\* Lines 91-93: the identity of the key-sorted copy.
SortedIdentity(attributes) == MetricAttributesNew(SortByKey(attributes))

\* Lines 91-95: sort, build the sorted identity, get() under the write lock.
AddSortedLookup(t) ==
    /\ pc[t] = "add_sorted"
    /\ LET c == loc[t].ctr
           metric_point == MapGet(ctrMap[c], SortedIdentity(loc[t].attributes))
       IN  /\ loc' = [loc EXCEPT ![t].point = metric_point]
           /\ pc' = [pc EXCEPT ![t] =
                        IF metric_point # 0 THEN "add_sorted_hit" ELSE "add_insert"]
           /\ Touch(c)
    /\ UNCHANGED <<registryVars, ctrMap, sums, ctrZero, readers, writer, ret,
                   calls, obs, added, zeroAdded, zeroReported>>

\* Line 96, then the write guard drops at the end of the function.
AddSortedHit(t) ==
    /\ pc[t] = "add_sorted_hit"
    /\ LET c == loc[t].ctr
       IN  /\ sums' = [sums EXCEPT ![c][loc[t].point] =
                          MetricPointAdd(@, loc[t].value)]
           /\ writer' = [writer EXCEPT ![c] = NoThread]
           /\ added' = [added EXCEPT ![c] =
                          Credit(@, loc[t].attributes, loc[t].value)]
           /\ Touch(c)
    /\ Return(t, Unit, <<>>)
    /\ UNCHANGED <<registryVars, ctrMap, ctrZero, readers, calls, zeroAdded,
                   zeroReported>>

\* Faulty variant: the write guard is dropped after the first insertion.
AddInsertIncomingUnlocked(t) ==
    /\ pc[t] = "add_insert"
    /\ LET c == loc[t].ctr
           mp_new == Len(sums[c]) + 1
       IN  /\ sums' = [sums EXCEPT ![c] =
                          Append(@, MetricPointAdd(MetricPointInit, loc[t].value))]
           /\ ctrMap' = [ctrMap EXCEPT ![c] =
                          MapInsert(@, MetricAttributesNew(loc[t].attributes), mp_new)]
           /\ loc' = [loc EXCEPT ![t].point = mp_new]
           /\ added' = [added EXCEPT ![c] =
                          Credit(@, loc[t].attributes, loc[t].value)]
           /\ writer' = [writer EXCEPT ![c] = NoThread]
           /\ Touch(c)
    /\ pc' = [pc EXCEPT ![t] = "add_insert_sorted"]
    /\ UNCHANGED <<registryVars, ctrZero, readers, ret, calls, obs,
                   zeroAdded, zeroReported>>

\* Lines 100-102: a new accumulator, the value added to it, inserted under
\* the identity of the attributes as given.
AddInsertIncoming(t) ==
    /\ pc[t] = "add_insert"
    /\ LET c == loc[t].ctr
           mp_new == Len(sums[c]) + 1
       IN  /\ sums' = [sums EXCEPT ![c] =
                          Append(@, MetricPointAdd(MetricPointInit, loc[t].value))]
           /\ ctrMap' = [ctrMap EXCEPT ![c] =
                          MapInsert(@, MetricAttributesNew(loc[t].attributes), mp_new)]
           /\ loc' = [loc EXCEPT ![t].point = mp_new]
           /\ added' = [added EXCEPT ![c] =
                          Credit(@, loc[t].attributes, loc[t].value)]
           /\ Touch(c)
    /\ pc' = [pc EXCEPT ![t] = "add_insert_sorted"]
    /\ UNCHANGED <<registryVars, ctrZero, readers, writer, ret, calls, obs,
                   zeroAdded, zeroReported>>

\* Line 105: the same accumulator inserted under the sorted identity; the
\* write guard drops at the end of the function.
AddInsertSorted(t) ==
    /\ pc[t] = "add_insert_sorted"
    /\ LET c == loc[t].ctr
       IN  /\ ctrMap' = [ctrMap EXCEPT ![c] =
                          MapInsert(@, SortedIdentity(loc[t].attributes), loc[t].point)]
           /\ writer' = [writer EXCEPT ![c] = NoThread]
           /\ Touch(c)
    /\ Return(t, Unit, <<>>)
    /\ UNCHANGED <<registryVars, sums, ctrZero, readers, calls, added, zeroAdded,
                   zeroReported>>

(***************************************************************************)
(* counter.rs: CounterInner::collect                                       *)
(***************************************************************************)
\* Counter::collect is called (lines 33-35).
CounterCollectCall(t, c) ==
    /\ CanCall(t)
    /\ c \in Counters
    /\ calls' = calls + 1
    /\ loc' = [loc EXCEPT ![t] = [IdleLoc EXCEPT !.top = "Counter.collect", !.ctr = c]]
    /\ pc' = [pc EXCEPT ![t] = "col_lock"]
    /\ ret' = [ret EXCEPT ![t] = NoReturn]
    /\ obs' = [obs EXCEPT ![t] = <<>>]
    /\ Enter(c, t)
    /\ UNCHANGED <<registryVars, ctrMap, sums, ctrZero, readers, writer, added,
                   zeroAdded, zeroReported>>

\* Line 57: metric_points_map.write().
CollectWriteLock(t) ==
    /\ pc[t] = "col_lock"
    /\ CanWrite(loc[t].ctr)
    /\ writer' = [writer EXCEPT ![loc[t].ctr] = t]
    /\ pc' = [pc EXCEPT ![t] = "col_drain"]
    /\ UNCHANGED <<registryVars, ctrMap, sums, ctrZero, readers, loc, ret, calls,
                   historyVars>>

\* Lines 57-59: drain() empties the map; every entry gives a row; the write
\* guard, a temporary of the for expression, drops after the loop.  An
\* accumulator no map entry and no thread refers to is freed.
CollectDrain(t) ==
    /\ pc[t] = "col_drain"
    /\ LET c == loc[t].ctr
           m == ctrMap[c]
       IN  /\ loc' = [loc EXCEPT
                        ![t].metric_points = DrainRows(m, sums[c]),
                        ![t].drain = [ctr |-> c,
                                      keys |-> [i \in 1..Len(m) |-> m[i].key],
                                      points |-> [i \in 1..Len(m) |-> m[i].point],
                                      added |-> added[c],
                                      quiet |-> FALSE]]
           /\ ctrMap' = [ctrMap EXCEPT ![c] = MapAfterDrain(m)]
           /\ sums' = [sums EXCEPT ![c] =
                          IF \/ \E u \in Threads : loc[u].ctr = c /\ loc[u].point # 0
                             \/ MapAfterDrain(m) # <<>>
                          THEN @ ELSE <<>>]
           /\ writer' = [writer EXCEPT ![c] = NoThread]
           /\ added' = [added EXCEPT ![c] = NoAdds]
    /\ pc' = [pc EXCEPT ![t] = "col_load"]
    /\ UNCHANGED <<registryVars, ctrZero, readers, ret, calls, obs, zeroAdded,
                   zeroReported, quiet>>

\* Lines 61-65: the zero-attribute row: load() as u32.
CollectLoadZero(t) ==
    /\ pc[t] = "col_load"
    /\ LET c == loc[t].ctr
       IN  /\ loc' = [loc EXCEPT ![t].metric_points = Append(@, <<<<>>, ctrZero[c]>>)]
           /\ zeroReported' = [zeroReported EXCEPT ![c] = @ + ctrZero[c]]
    /\ pc' = [pc EXCEPT ![t] = "col_store"]
    /\ UNCHANGED <<registryVars, ctrMap, sums, ctrZero, readers, writer, ret,
                   calls, obs, added, zeroAdded, quiet>>

\* Lines 67-72: Metric::new, store(0), return.  The Metric goes to the caller
\* of Counter::collect, or to the metrics of the Meter::collect running it.
CollectStoreZero(t) ==
    /\ pc[t] = "col_store"
    /\ LET c == loc[t].ctr
           metric == [name |-> ctrName[c], metric_points |-> loc[t].metric_points]
           drain == [loc[t].drain EXCEPT !.quiet = t \in quiet[c].observers]
       IN  /\ ctrZero' = [ctrZero EXCEPT ![c] = 0]
           /\ quiet' = [quiet EXCEPT ![c] =
                          [armed |-> @.armed \ {t},
                           next |-> @.next \/ t \in @.armed,
                           observers |-> @.observers \ {t},
                           beside |-> @.beside]]
           /\ IF loc[t].top = "Counter.collect"
              THEN Return(t, [kind |-> "Metric", metric |-> metric], <<drain>>)
              ELSE /\ loc' = [loc EXCEPT ![t].metrics = Append(@, metric),
                                         ![t].seen = Append(@, drain),
                                         ![t].ctr = 0,
                                         ![t].metric_points = <<>>,
                                         ![t].drain = NoDrain]
                   /\ pc' = [pc EXCEPT ![t] = "m_next"]
                   /\ UNCHANGED <<ret, obs>>
    /\ UNCHANGED <<registryVars, ctrMap, sums, readers, writer, calls, added,
                   zeroAdded, zeroReported>>

(***************************************************************************)
(* meter.rs                                                                *)
(***************************************************************************)
MeterNames == {"meter", "meter2"}
CounterNames == {"counter-name", "counter2"}

\* Faulty variant: the lookup never finds the counter.
CountersGetNone(m, name) == 0

\* Line 46: counters.get(name).
CountersGet(m, name) == meterCounters[m][name]

\* MeterInner::create_counter (lines 44-53), all of it inside the Mutex of
\* counters: the registered counter, or a new one registered under the name.
CreateCounter(t, m, name) ==
    /\ CanCall(t)
    /\ m \in Meters
    /\ meterLock[m] = NoThread
    /\ calls' = calls + 1
    /\ LET found == CountersGet(m, name)
           counter == IF found # 0 THEN found ELSE Len(ctrName) + 1
       IN  /\ IF found # 0
              THEN UNCHANGED <<meterCounters, ctrName, ctrMap, sums, ctrZero,
                               readers, writer, added, zeroAdded, zeroReported,
                               quiet>>
              ELSE /\ meterCounters' = [meterCounters EXCEPT ![m][name] = counter]
                   /\ ctrName' = Append(ctrName, name)
                   /\ ctrMap' = Append(ctrMap, <<>>)
                   /\ sums' = Append(sums, <<>>)
                   /\ ctrZero' = Append(ctrZero, 0)
                   /\ readers' = Append(readers, {})
                   /\ writer' = Append(writer, NoThread)
                   /\ added' = Append(added, NoAdds)
                   /\ zeroAdded' = Append(zeroAdded, 0)
                   /\ zeroReported' = Append(zeroReported, 0)
                   /\ quiet' = Append(quiet, NoQuiet)
           /\ ret' = [ret EXCEPT ![t] = [kind |-> "Counter", counter |-> counter]]
           /\ handed' = handed \cup
                 {[op |-> "create_counter", on |-> m, name |-> name, handle |-> counter,
                   by |-> t]}
    /\ obs' = [obs EXCEPT ![t] = <<>>]
    /\ UNCHANGED <<meters, providerLock, meterName, meterLock, pc, loc, atCall>>

\* Meter::collect is called (line 27).
MeterCollectCall(t, m) ==
    /\ CanCall(t)
    /\ m \in Meters
    /\ calls' = calls + 1
    /\ loc' = [loc EXCEPT ![t] = [IdleLoc EXCEPT !.top = "Meter.collect", !.meter = m]]
    /\ pc' = [pc EXCEPT ![t] = "m_lock"]
    /\ ret' = [ret EXCEPT ![t] = NoReturn]
    /\ obs' = [obs EXCEPT ![t] = <<>>]
    /\ UNCHANGED <<registryVars, ctrMap, sums, ctrZero, readers, writer, added,
                   zeroAdded, zeroReported, quiet>>

\* Lines 28-30: counters.lock(), and the values() iterator over the registry.
MeterLock(t) ==
    /\ pc[t] = "m_lock"
    /\ LET m == loc[t].meter
       IN  /\ meterLock[m] = NoThread
           /\ meterLock' = [meterLock EXCEPT ![m] = t]
           /\ loc' = [loc EXCEPT ![t].ctodo =
                        {meterCounters[m][n] : n \in CounterNames} \ {0}]
    /\ pc' = [pc EXCEPT ![t] = "m_next"]
    /\ UNCHANGED <<meters, providerLock, meterName, meterCounters, ctrName, handed,
                   atCall,
                   ctrMap, sums, ctrZero, readers, writer, ret, calls, historyVars>>

\* Lines 30-31: the iterator yields the next counter (in the map's order,
\* which is any order), and counter.collect() is called on it.
MeterNext(t, c) ==
    /\ pc[t] = "m_next"
    /\ c \in loc[t].ctodo
    /\ loc' = [loc EXCEPT ![t].ctodo = @ \ {c}, ![t].ctr = c]
    /\ pc' = [pc EXCEPT ![t] = "col_lock"]
    /\ Enter(c, t)
    /\ UNCHANGED <<registryVars, ctrMap, sums, ctrZero, readers, writer, ret,
                   calls, obs, added, zeroAdded, zeroReported>>

\* Lines 32-35: the loop is over; the Mutex guard drops; metrics is returned
\* to the caller, or appended to the metrics of MeterProviderInner::collect.
MeterDone(t) ==
    /\ pc[t] = "m_next"
    /\ loc[t].ctodo = {}
    /\ meterLock' = [meterLock EXCEPT ![loc[t].meter] = NoThread]
    /\ IF loc[t].top = "Meter.collect"
       THEN Return(t, [kind |-> "Metrics", call |-> loc[t].top, metrics |-> loc[t].metrics],
                   loc[t].seen)
       ELSE /\ loc' = [loc EXCEPT ![t].meter = 0]
            /\ pc' = [pc EXCEPT ![t] = "p_next"]
            /\ UNCHANGED <<ret, obs>>
    /\ UNCHANGED <<meters, providerLock, meterName, meterCounters, ctrName, handed,
                   atCall,
                   ctrMap, sums, ctrZero, readers, writer, calls, added, zeroAdded,
                   zeroReported, quiet>>

(***************************************************************************)
(* meter_provider.rs                                                       *)
(***************************************************************************)
\* Faulty variant: the loop stops after one meter.
AfterFirstMeter(rest) == {}

\* Line 72: the loop goes on over every meter the iterator has left.
RemainingMeters(rest) == rest

\* MeterProviderInner::get_meter (lines 58-67), all of it inside the Mutex of
\* meters: the registered meter, or a new one registered under the name.
GetMeter(t, name) ==
    /\ CanCall(t)
    /\ providerLock = NoThread
    /\ calls' = calls + 1
    /\ LET found == meters[name]
           meter == IF found # 0 THEN found ELSE Len(meterName) + 1
       IN  /\ IF found # 0
              THEN UNCHANGED <<meters, meterName, meterCounters, meterLock>>
              ELSE /\ meters' = [meters EXCEPT ![name] = meter]
                   /\ meterName' = Append(meterName, name)
                   /\ meterCounters' = Append(meterCounters, [n \in CounterNames |-> 0])
                   /\ meterLock' = Append(meterLock, NoThread)
           /\ ret' = [ret EXCEPT ![t] = [kind |-> "Meter", meter |-> meter]]
           /\ handed' = handed \cup
                 {[op |-> "get_meter", on |-> 0, name |-> name, handle |-> meter, by |-> t]}
    /\ obs' = [obs EXCEPT ![t] = <<>>]
    /\ UNCHANGED <<providerLock, ctrName, ctrMap, sums, ctrZero, readers, writer,
                   pc, loc, historyVars, atCall>>

\* The counters registered in some meter of the provider (history helper).
Registered ==
    {meterCounters[meters[mn]][cn] :
        <<mn, cn>> \in {x \in MeterNames \X CounterNames : meters[x[1]] # 0}} \ {0}

\* MeterProvider::collect is called (line 42).
ProviderCollectCall(t) ==
    /\ CanCall(t)
    /\ calls' = calls + 1
    /\ loc' = [loc EXCEPT ![t] = [IdleLoc EXCEPT !.top = "MeterProvider.collect"]]
    /\ pc' = [pc EXCEPT ![t] = "p_lock"]
    /\ ret' = [ret EXCEPT ![t] = NoReturn]
    /\ obs' = [obs EXCEPT ![t] = <<>>]
    /\ atCall' = [atCall EXCEPT ![t] = Registered]
    /\ UNCHANGED <<meters, providerLock, meterName, meterCounters, meterLock,
                   ctrName, handed, ctrMap, sums, ctrZero, readers, writer, added,
                   zeroAdded, zeroReported, quiet>>

\* Lines 70-72: meters.lock(), and the values() iterator over the registry.
ProviderLock(t) ==
    /\ pc[t] = "p_lock"
    /\ providerLock = NoThread
    /\ providerLock' = t
    /\ loc' = [loc EXCEPT ![t].mtodo = {meters[n] : n \in MeterNames} \ {0}]
    /\ pc' = [pc EXCEPT ![t] = "p_next"]
    /\ UNCHANGED <<meters, meterName, meterCounters, meterLock, ctrName, handed,
                   atCall,
                   ctrMap, sums, ctrZero, readers, writer, ret, calls, historyVars>>

\* Lines 72-73: the iterator yields the next meter (in any order), and
\* meter.collect() is called on it.
ProviderNext(t, m) ==
    /\ pc[t] = "p_next"
    /\ m \in loc[t].mtodo
    /\ loc' = [loc EXCEPT ![t].mtodo = RemainingMeters(@ \ {m}), ![t].meter = m]
    /\ pc' = [pc EXCEPT ![t] = "m_lock"]
    /\ UNCHANGED <<registryVars, ctrMap, sums, ctrZero, readers, writer, ret,
                   calls, historyVars>>

\* Lines 74-77: the loop is over; metrics is returned and the guard drops.
\* The batch goes to the caller of MeterProvider::collect, or to the loop
\* of the periodic flush task (line 29).
ProviderDone(t) ==
    /\ pc[t] = "p_next"
    /\ loc[t].mtodo = {}
    /\ providerLock' = NoThread
    /\ IF loc[t].top = "flush"
       THEN /\ pc' = [pc EXCEPT ![t] = "f_print"]
            /\ loc' = [loc EXCEPT ![t] = [IdleLoc EXCEPT !.top = "flush"]]
            /\ ret' = [ret EXCEPT ![t] =
                         [kind |-> "Metrics", call |-> "flush", metrics |-> loc[t].metrics]]
            /\ obs' = [obs EXCEPT ![t] = loc[t].seen]
       ELSE Return(t, [kind |-> "Metrics", call |-> loc[t].top,
                       metrics |-> loc[t].metrics],
                   loc[t].seen)
    /\ UNCHANGED <<meters, meterName, meterCounters, meterLock, ctrName, handed,
                   atCall,
                   ctrMap, sums, ctrZero, readers, writer, calls, added, zeroAdded,
                   zeroReported, quiet>>

(***************************************************************************)
(* Spec: one counter made by Counter::new, two threads calling add on it   *)
(* and one thread calling collect on it.                                   *)
(***************************************************************************)
Writers == {"t1", "t2"}
Collectors == {"t3"}

\* The attribute lists handed to add: a two-key list in both orders, a list
\* whose hash collides with the hash of the first, and a list with a NaN.
AttributeLists == {<<kv1, kv2>>, <<kv2, kv1>>, <<kv2>>, <<kvNaN>>}

\* The lists handed to add: the empty list among them.
AddLists == AttributeLists \cup {<<>>}

Init ==
    /\ meters = [n \in MeterNames |-> 0]
    /\ providerLock = NoThread
    /\ meterName = <<>>
    /\ meterCounters = <<>>
    /\ meterLock = <<>>
    /\ ctrName = <<"counter">>
    /\ ctrMap = <<<<>>>>
    /\ sums = <<<<>>>>
    /\ ctrZero = <<0>>
    /\ readers = <<{}>>
    /\ writer = <<NoThread>>
    /\ pc = [t \in Threads |-> "idle"]
    /\ loc = [t \in Threads |-> IdleLoc]
    /\ ret = [t \in Threads |-> NoReturn]
    /\ calls = 0
    /\ obs = [t \in Threads |-> <<>>]
    /\ added = <<NoAdds>>
    /\ zeroAdded = <<0>>
    /\ zeroReported = <<0>>
    /\ quiet = <<NoQuiet>>
    /\ handed = {}
    /\ atCall = [t \in Threads |-> {}]

AddSteps(t) ==
    \/ AddHit(t)
    \/ AddDropRead(t)
    \/ AddWriteLock(t)
    \/ AddSortedLookup(t)
    \/ AddSortedHit(t)
    \/ AddInsertIncoming(t)
    \/ AddInsertSorted(t)

CollectSteps(t) ==
    \/ CollectWriteLock(t)
    \/ CollectDrain(t)
    \/ CollectLoadZero(t)
    \/ CollectStoreZero(t)

Next ==
    \/ \E t \in Writers, value \in Values : AddZeroAttribute(t, 1, value)
    \/ \E t \in Writers, value \in Values, attributes \in AddLists :
          AddLookup(t, 1, value, attributes)
    \/ \E t \in Writers : AddSteps(t)
    \/ \E t \in Collectors : CounterCollectCall(t, 1)
    \/ \E t \in Collectors : CollectSteps(t)

Spec == Init /\ [][Next]_vars

(***************************************************************************)
(* SpecOrderings: the counter of Spec, with the adds drawing from the      *)
(* orderings of a three-key list (as main.rs and benches/counter.rs hand   *)
(* them to add) and of a list in which one key occurs twice.               *)
(***************************************************************************)
kv3 == KV(3, "String", "value3")
kv1b == KV(1, "String", "value2")

OrderingLists ==
    {<<kv1, kv2, kv3>>, <<kv2, kv1, kv3>>, <<kv3, kv2, kv1>>,
     <<kv1, kv1b>>, <<kv1b, kv1>>}

OrderingValues == {1}

NextOrderings ==
    \/ \E t \in Writers, value \in OrderingValues, attributes \in OrderingLists :
          AddLookup(t, 1, value, attributes)
    \/ \E t \in Writers : AddSteps(t)
    \/ \E t \in Collectors : CounterCollectCall(t, 1)
    \/ \E t \in Collectors : CollectSteps(t)

SpecOrderings == Init /\ [][NextOrderings]_vars

(***************************************************************************)
(* SpecProvider: a provider as benches/counter.rs and main.rs set it up    *)
(* (get_meter("meter"), then create_counter("counter-name")), two client   *)
(* threads calling get_meter, create_counter and add, and one thread       *)
(* calling the three collects.                                             *)
(***************************************************************************)
Clients == {"t1", "t2"}

ClientValues == {1}
ClientLists == {<<kv1>>}

InitProvider ==
    /\ meters = [n \in MeterNames |-> IF n = "meter" THEN 1 ELSE 0]
    /\ providerLock = NoThread
    /\ meterName = <<"meter">>
    /\ meterCounters = <<[n \in CounterNames |-> IF n = "counter-name" THEN 1 ELSE 0]>>
    /\ meterLock = <<NoThread>>
    /\ ctrName = <<"counter-name">>
    /\ ctrMap = <<<<>>>>
    /\ sums = <<<<>>>>
    /\ ctrZero = <<0>>
    /\ readers = <<{}>>
    /\ writer = <<NoThread>>
    /\ pc = [t \in Threads |-> "idle"]
    /\ loc = [t \in Threads |-> IdleLoc]
    /\ ret = [t \in Threads |-> NoReturn]
    /\ calls = 0
    /\ obs = [t \in Threads |-> <<>>]
    /\ added = <<NoAdds>>
    /\ zeroAdded = <<0>>
    /\ zeroReported = <<0>>
    /\ quiet = <<NoQuiet>>
    /\ handed = {[op |-> "get_meter", on |-> 0, name |-> "meter", handle |-> 1,
                  by |-> "main"],
                 [op |-> "create_counter", on |-> 1, name |-> "counter-name",
                  handle |-> 1, by |-> "main"]}
    /\ atCall = [t \in Threads |-> {}]

FanOutSteps(t) ==
    \/ MeterLock(t)
    \/ \E c \in Counters : MeterNext(t, c)
    \/ MeterDone(t)
    \/ ProviderLock(t)
    \/ \E m \in Meters : ProviderNext(t, m)
    \/ ProviderDone(t)

NextProvider ==
    \/ \E t \in Clients, name \in MeterNames : GetMeter(t, name)
    \/ \E t \in Clients, m \in Meters, name \in CounterNames : CreateCounter(t, m, name)
    \/ \E t \in Clients, c \in Counters, value \in ClientValues :
          AddZeroAttribute(t, c, value)
    \/ \E t \in Clients, c \in Counters, value \in ClientValues,
          attributes \in ClientLists : AddLookup(t, c, value, attributes)
    \/ \E t \in Clients : AddSteps(t)
    \/ \E t \in Collectors, c \in Counters : CounterCollectCall(t, c)
    \/ \E t \in Collectors, m \in Meters : MeterCollectCall(t, m)
    \/ \E t \in Collectors : ProviderCollectCall(t)
    \/ \E t \in Collectors : CollectSteps(t)
    \/ \E t \in Collectors : FanOutSteps(t)

SpecProvider == InitProvider /\ [][NextProvider]_vars

(***************************************************************************)
(* meter_provider.rs: MeterProvider::new_with_periodic_flush.  The thread  *)
(* spawned at line 27 runs loop { sleep; collect; print } and nothing      *)
(* joins or stops it.                                                      *)
(***************************************************************************)
\* Faulty variant: the task ends after it has printed one batch.
FlushOnce(t) == "f_exit"

\* Line 27: `loop` has no break: after an iteration comes the next sleep.
FlushLoop(t) == "f_sleep"

\* Lines 28-29: the sleep is over; mp_clone.collect() is called.
FlushWake(t) ==
    /\ pc[t] = "f_sleep"
    /\ pc' = [pc EXCEPT ![t] = "p_lock"]
    /\ atCall' = [atCall EXCEPT ![t] = Registered]
    /\ UNCHANGED <<meters, providerLock, meterName, meterCounters, meterLock,
                   ctrName, handed, ctrMap, sums, ctrZero, readers, writer, loc,
                   ret, calls, historyVars>>

\* Lines 30-32: every Metric of the batch is printed; the batch is dropped
\* at the end of the iteration.
FlushPrint(t) ==
    /\ pc[t] = "f_print"
    /\ pc' = [pc EXCEPT ![t] = FlushLoop(t)]
    /\ ret' = [ret EXCEPT ![t] = NoReturn]
    /\ obs' = [obs EXCEPT ![t] = <<>>]
    /\ UNCHANGED <<registryVars, ctrMap, sums, ctrZero, readers, writer, loc,
                   calls, added, zeroAdded, zeroReported, quiet>>

(***************************************************************************)
(* SpecFlush: a provider made by new_with_periodic_flush with one meter    *)
(* and one counter (benches/counter.rs lines 6-8): the flush task, one     *)
(* client thread calling get_meter, create_counter and add, and one thread *)
(* calling the three collects.                                             *)
(***************************************************************************)
FlushTask == "t3"
FlushClients == {"t1"}
FlushCallers == {"t2"}

\* API calls the client and the caller start in one run beside the task.
MaxFlushCalls == 2

\* The attribute lists the client hands to add: one logical set, both orders.
FlushLists == {<<kv1, kv2>>, <<kv2, kv1>>}

\* The name the client hands to create_counter: registered in the first
\* meter, new in any other.
FlushCounterNames == {"counter-name"}

InitFlush ==
    /\ meters = [n \in MeterNames |-> IF n = "meter" THEN 1 ELSE 0]
    /\ providerLock = NoThread
    /\ meterName = <<"meter">>
    /\ meterCounters = <<[n \in CounterNames |-> IF n = "counter-name" THEN 1 ELSE 0]>>
    /\ meterLock = <<NoThread>>
    /\ ctrName = <<"counter-name">>
    /\ ctrMap = <<<<>>>>
    /\ sums = <<<<>>>>
    /\ ctrZero = <<0>>
    /\ readers = <<{}>>
    /\ writer = <<NoThread>>
    /\ pc = [t \in Threads |-> IF t = FlushTask THEN "f_sleep" ELSE "idle"]
    /\ loc = [t \in Threads |->
                IF t = FlushTask THEN [IdleLoc EXCEPT !.top = "flush"] ELSE IdleLoc]
    /\ ret = [t \in Threads |-> NoReturn]
    /\ calls = 0
    /\ obs = [t \in Threads |-> <<>>]
    /\ added = <<NoAdds>>
    /\ zeroAdded = <<0>>
    /\ zeroReported = <<0>>
    /\ quiet = <<NoQuiet>>
    /\ handed = {[op |-> "get_meter", on |-> 0, name |-> "meter", handle |-> 1,
                  by |-> "main"],
                 [op |-> "create_counter", on |-> 1, name |-> "counter-name",
                  handle |-> 1, by |-> "main"]}
    /\ atCall = [t \in Threads |-> {}]

FlushSteps(t) ==
    \/ FlushWake(t)
    \/ FlushPrint(t)

ClientCalls(t) ==
    /\ calls < MaxFlushCalls
    /\ \/ \E name \in MeterNames : GetMeter(t, name)
       \/ \E m \in Meters, name \in FlushCounterNames : CreateCounter(t, m, name)
       \/ \E c \in Counters, value \in ClientValues : AddZeroAttribute(t, c, value)
       \/ \E c \in Counters, value \in ClientValues, attributes \in FlushLists :
             AddLookup(t, c, value, attributes)

CollectCalls(t) ==
    /\ calls < MaxFlushCalls
    /\ \/ \E c \in Counters : CounterCollectCall(t, c)
       \/ \E m \in Meters : MeterCollectCall(t, m)
       \/ ProviderCollectCall(t)

NextFlush ==
    \/ \E t \in FlushClients : ClientCalls(t)
    \/ \E t \in FlushClients : AddSteps(t)
    \/ \E t \in FlushCallers : CollectCalls(t)
    \/ \E t \in FlushCallers \cup {FlushTask} : CollectSteps(t)
    \/ \E t \in FlushCallers \cup {FlushTask} : FanOutSteps(t)
    \/ FlushSteps(FlushTask)

SpecFlush == InitFlush /\ [][NextFlush]_vars

\* The steps by which a thread goes on with the call it is in without
\* waiting for a lock.  Every thread is scheduled again and again, and the
\* sleep of the flush task ends.
Continue(t) ==
    \/ AddHit(t)
    \/ AddDropRead(t)
    \/ AddSortedLookup(t)
    \/ AddSortedHit(t)
    \/ AddInsertIncoming(t)
    \/ AddInsertSorted(t)
    \/ CollectDrain(t)
    \/ CollectLoadZero(t)
    \/ CollectStoreZero(t)
    \/ \E c \in Counters : MeterNext(t, c)
    \/ MeterDone(t)
    \/ \E m \in Meters : ProviderNext(t, m)
    \/ ProviderDone(t)
    \/ FlushSteps(t)

\* The steps that return from lock() or write(): a lock that is free again
\* and again is in the end given to the thread that waits for it.
Acquire(t) ==
    \/ AddWriteLock(t)
    \/ CollectWriteLock(t)
    \/ MeterLock(t)
    \/ ProviderLock(t)

FairFlush ==
    \A t \in Threads : WF_vars(Continue(t)) /\ SF_vars(Acquire(t))

\* LiveFlush: SpecFlush under fair scheduling of threads and locks.
LiveFlush == InitFlush /\ [][NextFlush]_vars /\ FairFlush

(***************************************************************************)
(* The widths of the accumulators.  A machine integer is written as its    *)
(* 16-bit limbs, lowest first: a u32 has two limbs, a u64 four, a usize    *)
(* two or four, as the target has 32-bit or 64-bit pointers.               *)
(***************************************************************************)
LimbBase == 2^16

RECURSIVE AddLimbs(_, _, _)
AddLimbs(a, b, carry) ==
    IF a = <<>> THEN <<>>
    ELSE LET d == Head(a) + (IF b = <<>> THEN 0 ELSE Head(b)) + carry
         IN  <<d % LimbBase>> \o
             AddLimbs(Tail(a), IF b = <<>> THEN <<>> ELSE Tail(b), d \div LimbBase)

\* Faulty variant: the sum is kept in 32 bits.
fetch_add_u32(sum, value) ==
    AddLimbs(SubSeq(sum, 1, 2), value, 0) \o [i \in 1..(Len(sum) - 2) |-> 0]

\* AtomicU64::fetch_add(value as u64) and AtomicUsize::fetch_add(value as
\* usize): the u32 value is zero-extended to the width of the atomic and the
\* addition wraps at that width.
fetch_add(sum, value) == AddLimbs(sum, value, 0)

\* `load(..) as u32`: the low 32 bits.
load_as_u32(sum) == SubSeq(sum, 1, 2)

\* MetricPointInner::new in limbs: AtomicU64::new(1).
MetricPointNew == <<MetricPointInit, 0, 0, 0>>

\* AtomicUsize::new(0) on a target whose usize has the given number of limbs.
ZeroAttributePointNew(limbs) == [i \in 1..limbs |-> 0]

\* The u32 values handed to add where widths matter, each with its exact
\* value a + b * 2^32 written <<a, b>>: 1, 2^16 - 1, 2^16 and 2^32 - 1.
WideValues ==
    {[value |-> <<1, 0>>, exact |-> <<1, 0>>],
     [value |-> <<LimbBase - 1, 0>>, exact |-> <<LimbBase - 1, 0>>],
     [value |-> <<0, 1>>, exact |-> <<LimbBase, 0>>],
     [value |-> <<LimbBase - 1, LimbBase - 1>>, exact |-> <<-1, 1>>]}

\* MetricPointInner::add on the accumulator of the counter's one labeled key.
WidthAdd(t, v) ==
    /\ CanCall(t)
    /\ calls' = calls + 1
    /\ sums' = [sums EXCEPT ![1][1] = fetch_add(@, v.value)]
    /\ added' = [added EXCEPT ![1] = <<@[1] + v.exact[1], @[2] + v.exact[2]>>]
    /\ ret' = [ret EXCEPT ![t] = Unit]
    /\ obs' = [obs EXCEPT ![t] = <<>>]
    /\ UNCHANGED <<registryVars, ctrMap, ctrZero, readers, writer, pc, loc,
                   zeroAdded, zeroReported, quiet>>

\* counter.rs 77-78: fetch_add(value as usize) on zero_attribute_point.
WidthAddZero(t, v) ==
    /\ CanCall(t)
    /\ calls' = calls + 1
    /\ ctrZero' = [ctrZero EXCEPT ![1] = fetch_add(@, v.value)]
    /\ zeroAdded' = [zeroAdded EXCEPT ![1] = <<@[1] + v.exact[1], @[2] + v.exact[2]>>]
    /\ ret' = [ret EXCEPT ![t] = Unit]
    /\ obs' = [obs EXCEPT ![t] = <<>>]
    /\ UNCHANGED <<registryVars, ctrMap, sums, readers, writer, pc, loc, added,
                   zeroReported, quiet>>

\* MetricPointInner::get_sum, as collect calls it for a labeled row.
WidthGetSum(t) ==
    /\ pc[t] = "idle"
    /\ ret' = [ret EXCEPT ![t] = [kind |-> "Row", labeled |-> TRUE,
                                  value |-> load_as_u32(sums[1][1])]]
    /\ obs' = [obs EXCEPT ![t] = <<<<added[1][1] + MetricPointInit, added[1][2]>>>>]
    /\ UNCHANGED <<registryVars, ctrMap, sums, ctrZero, readers, writer, pc, loc,
                   calls, added, zeroAdded, zeroReported, quiet>>

\* counter.rs 63-64: the value of the zero-attribute row.
WidthLoadZero(t) ==
    /\ pc[t] = "idle"
    /\ ret' = [ret EXCEPT ![t] = [kind |-> "Row", labeled |-> FALSE,
                                  value |-> load_as_u32(ctrZero[1])]]
    /\ obs' = [obs EXCEPT ![t] = <<zeroAdded[1]>>]
    /\ UNCHANGED <<registryVars, ctrMap, sums, ctrZero, readers, writer, pc, loc,
                   calls, added, zeroAdded, zeroReported, quiet>>

\* The limbs a usize can have.
UsizeLimbs == {2, 4}

\* SpecWidth: one labeled accumulator, just created, and the zero-attribute
\* accumulator of a counter, on either kind of target; one thread adds to
\* them and reads them.  The histories added and zeroAdded hold the exact
\* totals <<a, b>> of the values added.
InitWidth ==
    /\ meters = [n \in MeterNames |-> 0]
    /\ providerLock = NoThread
    /\ meterName = <<>>
    /\ meterCounters = <<>>
    /\ meterLock = <<>>
    /\ ctrName = <<"counter">>
    /\ ctrMap = <<<<[key |-> MetricAttributesNew(<<kv1>>), point |-> 1]>>>>
    /\ sums = <<<<MetricPointNew>>>>
    /\ \E limbs \in UsizeLimbs : ctrZero = <<ZeroAttributePointNew(limbs)>>
    /\ readers = <<{}>>
    /\ writer = <<NoThread>>
    /\ pc = [t \in Threads |-> "idle"]
    /\ loc = [t \in Threads |-> IdleLoc]
    /\ ret = [t \in Threads |-> NoReturn]
    /\ calls = 0
    /\ obs = [t \in Threads |-> <<>>]
    /\ added = <<<<0, 0>>>>
    /\ zeroAdded = <<<<0, 0>>>>
    /\ zeroReported = <<0>>
    /\ quiet = <<NoQuiet>>
    /\ handed = {}
    /\ atCall = [t \in Threads |-> {}]

NextWidth ==
    \/ \E v \in WideValues : WidthAdd("t1", v)
    \/ \E v \in WideValues : WidthAddZero("t1", v)
    \/ WidthGetSum("t1")
    \/ WidthLoadZero("t1")

SpecWidth == InitWidth /\ [][NextWidth]_vars

(***************************************************************************)
(* What the claims are stated over: the Metric snapshots the calls have    *)
(* returned, each with what its drain saw.                                 *)
(***************************************************************************)
Reports ==
    {[metric |-> ret[t].metric, drain |-> obs[t][1], by |-> t] :
        t \in {u \in Threads : ret[u].kind = "Metric"}}
    \cup
    UNION {{[metric |-> ret[t].metrics[i], drain |-> obs[t][i], by |-> t] :
                i \in 1..Len(ret[t].metrics)} :
        t \in {u \in Threads : ret[u].kind = "Metrics"}}

\* The indices of the rows of a Metric whose attributes are an ordering of L.
RowsOf(metric, L) ==
    {i \in 1..Len(metric.metric_points) :
        /\ metric.metric_points[i][1] # <<>>
        /\ Canon(metric.metric_points[i][1]) = L}

LabeledRows(metric) ==
    {i \in 1..Len(metric.metric_points) : metric.metric_points[i][1] # <<>>}

RECURSIVE SumOver(_, _)
SumOver(S, f) ==
    IF S = {} THEN 0
    ELSE LET x == CHOOSE y \in S : TRUE IN f[x] + SumOver(S \ {x}, f)

\* The total of the values of the rows I of a Metric.
RowTotal(metric, I) ==
    SumOver(I, [i \in I |-> metric.metric_points[i][2]])

\* The logical attribute sets the adds of a run can name.
LogicalSets == {Canon(a) : a \in AttributeLists}

AddedTotal(drain, L) == IF L \in DOMAIN drain.added THEN drain.added[L].total ELSE 0

\* The places of an add between its map lookup and the end of its update.
MidUpdate == {"add_hit", "add_sorted_hit", "add_insert", "add_insert_sorted"}

AddPlaces == MidUpdate \cup {"add_miss", "add_write", "add_sorted"}

(***************************************************************************)
(* C1 Order independence: whatever orderings a logical attribute set was   *)
(* submitted under since the previous drain, the rows of the next snapshot *)
(* whose attributes are an ordering of that set total the sum of the       *)
(* values submitted for it.                                                *)
(***************************************************************************)
C1_OrderIndependence ==
    \A r \in Reports : \A L \in LogicalSets :
        RowTotal(r.metric, RowsOf(r.metric, L)) = AddedTotal(r.drain, L)

(***************************************************************************)
(* C2 No zero-attribute increment is lost in a race with collect: whenever *)
(* no collect stands between its read and its reset of the zero-attribute  *)
(* accumulator, the zero-attribute rows read so far plus the value the     *)
(* accumulator holds equal the total of the zero-attribute adds.           *)
(***************************************************************************)
C2_ZeroAttributeConservation ==
    \A c \in Counters :
        (\A t \in Threads : ~(pc[t] = "col_store" /\ loc[t].ctr = c))
            => zeroReported[c] + ctrZero[c] = zeroAdded[c]

(***************************************************************************)
(* C3 Labeled add and collect exclude each other at the map: while a       *)
(* collect holds the write guard no add on that counter is between its     *)
(* lookup and the end of its update; and every snapshot accounts for       *)
(* exactly the labeled adds completed since the previous drain: per        *)
(* logical set, the accumulators behind its rows have grown, together, by  *)
(* the total of those adds (so an add shows in one snapshot and not in a   *)
(* later one).                                                             *)
(***************************************************************************)
Growth(r, L) ==
    LET I == RowsOf(r.metric, L)
        P == {r.drain.points[i] : i \in I}
        sumOf == [p \in P |->
                    r.metric.metric_points[CHOOSE i \in I : r.drain.points[i] = p][2]
                        - MetricPointInit]
    IN  SumOver(P, sumOf)

C3_LabeledAddCollectExclusion ==
    /\ \A t \in Threads : pc[t] = "col_drain" =>
          \A u \in Threads : loc[u].ctr = loc[t].ctr => pc[u] \notin MidUpdate
    /\ \A r \in Reports : \A L \in LogicalSets :
          Growth(r, L) = AddedTotal(r.drain, L)

\* A snapshot that accounts for a labeled add was returned while another add
\* was waiting for the write lock.
C3_Witness ==
    \E r \in Reports :
        /\ \E L \in LogicalSets : AddedTotal(r.drain, L) > 0
        /\ \E u \in Threads : pc[u] = "add_write"

(***************************************************************************)
(* C4 Drain/reset: a collect that runs after a completed collect, with no  *)
(* step of any add on the counter from the start of that collect to its    *)
(* own end, returns the zero-attribute row with value 0 and nothing else.  *)
(***************************************************************************)
C4_SecondCollectIsEmpty ==
    \A r \in Reports :
        r.drain.quiet => r.metric.metric_points = << <<<<>>, 0>> >>

\* A quiet second collect has returned on a counter that zero-attribute and
\* labeled adds had filled before.
C4_Witness ==
    \E r \in Reports :
        /\ r.drain.quiet
        /\ zeroAdded[r.drain.ctr] > 0
        /\ zeroReported[r.drain.ctr] = zeroAdded[r.drain.ctr]

(***************************************************************************)
(* C6 Zero-attribute isolation: a step of add(v, []) leaves the map, its   *)
(* key set and every labeled accumulator as they are; a step of an add     *)
(* with attributes leaves the zero-attribute accumulator as it is.  So in  *)
(* every snapshot the zero-attribute row is at most the total of the       *)
(* zero-attribute adds, and there are labeled rows only if labeled adds    *)
(* were completed since the previous drain.                                *)
(***************************************************************************)
ZeroRow(metric) == metric.metric_points[Len(metric.metric_points)]

SnapshotsIsolated ==
    \A r \in Reports :
        /\ ZeroRow(r.metric)[1] = <<>>
        /\ ZeroRow(r.metric)[2] <= zeroAdded[r.drain.ctr]
        /\ DOMAIN r.drain.added = {} => LabeledRows(r.metric) = {}
ZeroAddStep == zeroAdded' # zeroAdded

LabeledAddStep ==
    \E t \in Threads :
        /\ pc'[t] # pc[t]
        /\ pc[t] \in AddPlaces \/ pc'[t] \in AddPlaces

C6_ZeroAttributeIsolation ==
    /\ []SnapshotsIsolated
    /\ [][ /\ ZeroAddStep => ctrMap' = ctrMap /\ sums' = sums
           /\ LabeledAddStep => ctrZero' = ctrZero ]_vars

\* Both kinds of add have acted on a counter, and a snapshot of it holds a
\* labeled row and a zero-attribute row that is not 0.
C6_Witness ==
    \E r \in Reports :
        /\ ZeroRow(r.metric)[2] > 0
        /\ LabeledRows(r.metric) # {}

(***************************************************************************)
(* C7 A newly created accumulator starts at 0: the accumulator the miss    *)
(* path has just built holds the value of that add, and a snapshot reports *)
(* exactly v for a logical set that a single add(v, attrs) was made for    *)
(* since the previous drain.                                               *)
(***************************************************************************)
C7_NewAccumulatorStartsAtZero ==
    /\ \A t \in Threads : pc[t] = "add_insert_sorted" =>
          sums[loc[t].ctr][loc[t].point] = loc[t].value
    /\ \A r \in Reports : \A L \in DOMAIN r.drain.added :
          r.drain.added[L].n = 1 =>
              \A i \in RowsOf(r.metric, L) :
                  r.metric.metric_points[i][2] = r.drain.added[L].total

SameSequenceIn(m, attributes) ==
    {i \in 1..Len(m) : m[i].key.attributes = attributes}

C10_HashCollisionCorrectness ==
    /\ \A t \in Threads :
          LET c == loc[t].ctr IN
          /\ pc[t] = "add_miss" => SameSequenceIn(ctrMap[c], loc[t].attributes) = {}
          /\ pc[t] = "add_hit" =>
                \E i \in SameSequenceIn(ctrMap[c], loc[t].attributes) :
                    ctrMap[c][i].point = loc[t].point
    /\ \A c \in Counters : \A i, j \in 1..Len(ctrMap[c]) :
          Canon(ctrMap[c][i].key.attributes) # Canon(ctrMap[c][j].key.attributes)
              => ctrMap[c][i].point # ctrMap[c][j].point

\* The part of C10 that is about colliding hashes alone.
C10_CollidingKeysKeptApart ==
    \A c \in Counters : \A i, j \in 1..Len(ctrMap[c]) :
        Canon(ctrMap[c][i].key.attributes) # Canon(ctrMap[c][j].key.attributes)
            => ctrMap[c][i].point # ctrMap[c][j].point

\* Two keys of equal hash whose sequences are not permutations of each other
\* are both in the map.
C10_CollisionReached ==
    \E c \in Counters : \E i, j \in 1..Len(ctrMap[c]) :
        /\ ctrMap[c][i].key.hash_value = ctrMap[c][j].key.hash_value
        /\ Canon(ctrMap[c][i].key.attributes) # Canon(ctrMap[c][j].key.attributes)

(***************************************************************************)
(* C5 Idempotent registries: every handle create_counter(name) has ever    *)
(* returned for a meter is the counter that meter has registered under the *)
(* name now, and every handle get_meter(name) has ever returned is the     *)
(* meter registered under the name now: all calls for one name share one   *)
(* object, whichever thread made them and whatever collects ran between,   *)
(* and a registered object is never removed or replaced.                   *)
(***************************************************************************)
C5_IdempotentRegistries ==
    \A h \in handed :
        /\ h.op = "create_counter" => meterCounters[h.on][h.name] = h.handle
        /\ h.op = "get_meter" => meters[h.name] = h.handle

\* Two client threads hold handles that create_counter returned for one name
\* of a meter, and a collect has drained that counter.
C5_Witness ==
    \E h1, h2 \in handed :
        /\ h1.op = "create_counter" /\ h2.op = "create_counter"
        /\ h1.on = h2.on /\ h1.name = h2.name
        /\ h1.by \in Clients /\ h2.by \in Clients /\ h1.by # h2.by
        /\ \E r \in Reports : r.drain.ctr = h1.handle

(***************************************************************************)
(* C8 Provider fan-out: the batch MeterProvider.collect returns holds one  *)
(* Metric for every drain the call made, exactly one for each counter that *)
(* was registered in a meter of the provider when the call was made, never *)
(* two for one counter, each under the name of its counter, and only for   *)
(* counters registered in the provider.                                    *)
(***************************************************************************)
C8_ProviderFanOut ==
    \A t \in Threads :
        (ret[t].kind = "Metrics" /\ ret[t].call = "MeterProvider.collect") =>
            LET metrics == ret[t].metrics
                n == Len(metrics)
            IN  /\ Len(obs[t]) = n
                /\ \A c \in atCall[t] :
                      Cardinality({i \in 1..n : obs[t][i].ctr = c}) = 1
                /\ \A i \in 1..n :
                      /\ Cardinality({j \in 1..n : obs[t][j].ctr = obs[t][i].ctr}) = 1
                      /\ obs[t][i].ctr \in Registered
                      /\ metrics[i].name = ctrName[obs[t][i].ctr]

\* A batch holds the snapshots of two counters of the same name registered in
\* different meters.
C8_Witness ==
    \E t \in Threads :
        /\ ret[t].kind = "Metrics"
        /\ ret[t].call = "MeterProvider.collect"
        /\ \E i, j \in 1..Len(ret[t].metrics) :
              /\ ret[t].metrics[i].name = ret[t].metrics[j].name
              /\ obs[t][i].ctr # obs[t][j].ctr
              /\ {obs[t][i].ctr, obs[t][j].ctr} \subseteq atCall[t]

(***************************************************************************)
(* C11 At most one collect runs on a counter at a time: no two threads are *)
(* inside CounterInner::collect of the same counter, whichever of the      *)
(* flush task, Counter.collect, Meter.collect and MeterProvider.collect    *)
(* brought them there; so the zero-attribute rows read never total more    *)
(* than the zero-attribute adds made.                                      *)
(***************************************************************************)
CollectPlaces == {"col_lock", "col_drain", "col_load", "col_store"}

InCollect(t, c) == pc[t] \in CollectPlaces /\ loc[t].ctr = c

C11_NoDoubleReport ==
    \A c \in Counters : zeroReported[c] <= zeroAdded[c]

C11_OneCollectorPerCounter ==
    /\ \A c \in Counters : \A t, u \in Threads :
          InCollect(t, c) /\ InCollect(u, c) => t = u
    /\ C11_NoDoubleReport

(***************************************************************************)
(* C12 Numeric width: a labeled accumulator holds the exact total of what  *)
(* was added to it (and the 1 it starts with) also at 2^32 and beyond, and *)
(* so does the zero-attribute accumulator where usize has 64 bits; the     *)
(* value reported for a row, labeled or zero-attribute, is the exact total *)
(* modulo 2^32 on every target.                                            *)
(***************************************************************************)
\* The four limbs of the number a + b * 2^32, for -2^31 < a < 2^31.
ExactLimbs(e) ==
    LET lo == e[1] % LimbBase
        hi == (e[1] - lo) \div LimbBase
        b  == IF hi < 0 THEN e[2] - 1 ELSE e[2]
    IN  <<lo, IF hi < 0 THEN hi + LimbBase ELSE hi, b % LimbBase, b \div LimbBase>>

kvPosZero == KV(1, "F64", "+0.0")
kvNegZero == KV(1, "F64", "-0.0")

\* The part of C13 about the two zeros, on the functions alone.
C13_ZerosDiffer ==
    /\ ~KeyValueEq(kvPosZero, kvNegZero)
    /\ ValueBitsCode(kvPosZero.value) # ValueBitsCode(kvNegZero.value)

C13_FloatKeysByBitPattern ==
    \A c \in Counters : \A i, j \in 1..Len(ctrMap[c]) :
        ctrMap[c][i].key = ctrMap[c][j].key => i = j

(***************************************************************************)
(* C14 Periodic flush: a provider from new_with_periodic_flush has exactly *)
(* one flush task from construction on; the task is always in its loop     *)
(* (asleep, collecting or printing), whatever API calls are made; and      *)
(* under fair scheduling it hands over a batch again and again, for ever.  *)
(***************************************************************************)
FlushPlaces ==
    {"f_sleep", "f_print", "p_lock", "p_next", "m_lock", "m_next"} \cup CollectPlaces

FlushTasks == {t \in Threads : loc[t].top = "flush"}

C14_PeriodicFlush ==
    /\ [](FlushTasks = {FlushTask} /\ pc[FlushTask] \in FlushPlaces)
    /\ []<>(pc[FlushTask] = "f_print")
    /\ []<>(pc[FlushTask] = "f_sleep")

\* The task has handed over a batch with the snapshot of a counter that an
\* earlier collect had drained, with no add in between.
C14_Witness ==
    /\ pc[FlushTask] = "f_print"
    /\ \E r \in Reports : r.by = FlushTask /\ r.drain.quiet

(***************************************************************************)
(* C15 Double-checked miss path: an add creates an accumulator only when   *)
(* the map holds none for the logical set of its attributes, whichever     *)
(* threads missed under the read lock beside it; so the entries of a       *)
(* logical set share one accumulator, and it holds, beyond its initial     *)
(* value, the total of the values added for the set since the last drain.  *)
(***************************************************************************)
PointsOf(c, L) ==
    {ctrMap[c][i].point :
        i \in {j \in 1..Len(ctrMap[c]) : Canon(ctrMap[c][j].key.attributes) = L}}

MissPathSound(c, Sets) ==
    /\ \A t \in Threads :
          (pc[t] = "add_insert" /\ loc[t].ctr = c /\ Canon(loc[t].attributes) \in Sets)
              => PointsOf(c, Canon(loc[t].attributes)) = {}
    /\ \A L \in DOMAIN added[c] \cap Sets :
          /\ Cardinality(PointsOf(c, L)) = 1
          /\ \A p \in PointsOf(c, L) :
                sums[c][p] - MetricPointInit = added[c][L].total

C15_DoubleCheckedMissPath ==
    \A c \in Counters : MissPathSound(c, LogicalSets)

\* C15 for the attribute lists without a NaN.
C15_WithoutNaN ==
    \A c \in Counters : MissPathSound(c, LogicalSets \ {Canon(<<kvNaN>>)})

\* Two threads missed under the read lock with orderings of one logical set:
\* one has returned through the insertions, the other has found the sorted
\* key under the write lock.
C15_ConcurrentMissReached ==
    \E t, u \in Threads :
        /\ pc[t] = "add_sorted_hit" /\ pc[u] = "idle" /\ ret[u] = Unit
        /\ PointsOf(loc[t].ctr, Canon(loc[t].attributes)) = {loc[t].point}
        /\ Canon(loc[t].attributes) # Canon(<<kvNaN>>)
        /\ MapGet(ctrMap[loc[t].ctr], MetricAttributesNew(loc[t].attributes)) # 0

(***************************************************************************)
(* C16 Map footprint: when no insertion is under way and a logical set has *)
(* been submitted since the last drain under K orderings, none of them its *)
(* key-sorted ordering, the map holds K + 1 entries for the set (the K     *)
(* orderings and the sorted one), all on one accumulator.                  *)
(***************************************************************************)
EntriesOf(c, L) ==
    {i \in 1..Len(ctrMap[c]) : Canon(ctrMap[c][i].key.attributes) = L}

C16_MapFootprint ==
    \A c \in Counters : writer[c] = NoThread =>
        \A L \in DOMAIN added[c] :
            LET orders == added[c][L].orders
            IN  (\A o \in orders : o # SortByKey(o)) =>
                    /\ Cardinality(EntriesOf(c, L)) = Cardinality(orders) + 1
                    /\ Cardinality(PointsOf(c, L)) = 1

\* C16 for K = 1.
C16_OneOrdering ==
    \A c \in Counters : writer[c] = NoThread =>
        \A L \in DOMAIN added[c] :
            LET orders == added[c][L].orders
            IN  (Cardinality(orders) = 1 /\ \A o \in orders : o # SortByKey(o)) =>
                    /\ Cardinality(EntriesOf(c, L)) = 2
                    /\ Cardinality(PointsOf(c, L)) = 1

(***************************************************************************)
(* C17 Same-order fast path: an add whose ordering an earlier add on the   *)
(* counter has submitted since the last drain finds the as-submitted key   *)
(* under the read lock: its lookup never sends it to the miss path.        *)
(***************************************************************************)
Submitted(c, attributes) ==
    /\ Canon(attributes) \in DOMAIN added[c]
    /\ attributes \in added[c][Canon(attributes)].orders

C17_SameOrderFastPath ==
    [][ \A t \in Threads :
          (pc[t] = "idle" /\ pc'[t] = "add_miss")
              => ~Submitted(loc'[t].ctr, loc'[t].attributes) ]_vars

(***************************************************************************)
(* C18 The canonical key coalesces every permutation: the entries of the   *)
(* map whose keys are permutations of one list, a list with a key that     *)
(* occurs twice included, are all on one accumulator, and the key-sorted   *)
(* identity of an add on the miss path is the same for every permutation   *)
(* of its list.                                                            *)
(***************************************************************************)
C18_PermutationsCoalesce ==
    /\ \A c \in Counters : \A i, j \in 1..Len(ctrMap[c]) :
          Canon(ctrMap[c][i].key.attributes) = Canon(ctrMap[c][j].key.attributes)
              => ctrMap[c][i].point = ctrMap[c][j].point
    /\ \A t, u \in Threads :
          ( /\ pc[t] \in {"add_sorted", "add_insert"}
            /\ pc[u] \in {"add_write", "add_sorted", "add_insert"}
            /\ Canon(loc[t].attributes) = Canon(loc[u].attributes) )
              => SortedIdentity(loc[t].attributes) = SortedIdentity(loc[u].attributes)

\* C18 for the lists in which no key occurs twice.
C18_DistinctKeys ==
    \A c \in Counters : \A i, j \in 1..Len(ctrMap[c]) :
        ( /\ Canon(ctrMap[c][i].key.attributes) = Canon(ctrMap[c][j].key.attributes)
          /\ Len(ctrMap[c][i].key.attributes) = 3 )
            => ctrMap[c][i].point = ctrMap[c][j].point

(***************************************************************************)
(* C19 The zero-attribute path never blocks: add(v, []) can be carried out *)
(* in every state by a thread that is free to call it, also while a        *)
(* collect or an add on the miss path holds the write guard of the map,    *)
(* and its step takes and releases no guard of the map.                    *)
(***************************************************************************)
ZeroAddEnabled ==
    \A t \in Writers : \A c \in Counters :
        CanCall(t) => ENABLED AddZeroAttribute(t, c, 1)

C19_ZeroAttributeNeverBlocks ==
    /\ []ZeroAddEnabled
    /\ [][ZeroAddStep => readers' = readers /\ writer' = writer]_vars

\* A zero-attribute add has just been made while a collect held the write
\* guard of the map and an add was waiting for it.
C19_Witness ==
    \E c \in Counters :
        /\ quiet[c].beside = "collect"
        /\ writer[c] # NoThread
        /\ pc[writer[c]] = "col_drain"
        /\ \E u \in Threads : pc[u] = "add_write" /\ loc[u].ctr = c

\* A zero-attribute add has just been made while an add on the miss path held
\* the write guard of the map.
C19_BesideAddReached ==
    \E c \in Counters : quiet[c].beside = "add"

(***************************************************************************)
(* C20 Deadlock freedom and completion: whenever threads are inside calls, *)
(* one of them can take its next step; under fair scheduling of threads    *)
(* and locks every started call completes; locks nest only in the order    *)
(* provider registry, meter registry, counter map; and add never asks for  *)
(* the write guard of the map while it holds the read guard.               *)
(***************************************************************************)
InCall(t) == pc[t] \notin {"idle", "f_sleep"}

HoldsMeterLock(t) == \E m \in Meters : meterLock[m] = t
HoldsCounterGuard(t) == \E c \in Counters : writer[c] = t \/ t \in readers[c]

\* Some thread inside a call can take its next step.
NoDeadlock ==
    (\E t \in Threads : InCall(t)) =>
        \E t \in Threads : InCall(t) /\ ENABLED (Continue(t) \/ Acquire(t))

\* What a thread holds where it waits for a lock, and after its call.
LockOrder ==
    \A t \in Threads :
        /\ pc[t] = "p_lock" => ~HoldsMeterLock(t) /\ ~HoldsCounterGuard(t)
        /\ pc[t] = "m_lock" => ~HoldsCounterGuard(t)
        /\ pc[t] = "add_write" => ~HoldsCounterGuard(t)
        /\ ~InCall(t) =>
              providerLock # t /\ ~HoldsMeterLock(t) /\ ~HoldsCounterGuard(t)

\* What a thread holds in the step in which a lock is given to it.
LockNesting ==
    \A t \in Threads :
        /\ providerLock' = t /\ providerLock # t =>
              ~HoldsMeterLock(t) /\ ~HoldsCounterGuard(t)
        /\ \A m \in Meters :
              meterLock'[m] = t /\ meterLock[m] # t => ~HoldsCounterGuard(t)
        /\ \A c \in Counters :
              writer'[c] = t /\ writer[c] # t => t \notin readers[c]

C20_DeadlockFreedomAndCompletion ==
    /\ []NoDeadlock
    /\ []LockOrder
    /\ [][LockNesting]_vars
    /\ \A t \in FlushClients \cup FlushCallers : InCall(t) ~> pc[t] = "idle"
    /\ pc[FlushTask] = "p_lock" ~> pc[FlushTask] = "f_print"

\* The flush task holds the provider registry, the meter registry and the
\* write guard of the map, nested, while the client waits for the write
\* guard on the miss path and the collecting thread waits for a registry.
C20_Witness ==
    /\ providerLock = FlushTask
    /\ HoldsMeterLock(FlushTask)
    /\ \E c \in Counters : writer[c] = FlushTask
    /\ \E t \in FlushClients : pc[t] = "add_write" /\ ~ENABLED AddWriteLock(t)
    /\ \E t \in FlushCallers :
          pc[t] \in {"p_lock", "m_lock"} /\ ~ENABLED Acquire(t)

(***************************************************************************)
(* C21 Alias invariant of the map: while no thread holds the write guard,  *)
(* every key of the map has its key-sorted counterpart in the map, on the  *)
(* same accumulator; and an insertion of the miss path leaves every entry  *)
(* that was in the map on the accumulator it had, so no accumulated value  *)
(* is discarded by an insert.                                              *)
(***************************************************************************)
\* The entries of the map of c are paired: as stored, and as get() finds them.
Aliased(c) ==
    LET m == ctrMap[c]
    IN  \A i \in 1..Len(m) :
            LET sorted == SortedIdentity(m[i].key.attributes)
            IN  /\ \E j \in 1..Len(m) :
                      m[j].key = sorted /\ m[j].point = m[i].point
                /\ MapGet(m, m[i].key) # 0 =>
                      MapGet(m, sorted) = MapGet(m, m[i].key)

AliasInvariant ==
    \A c \in Counters : writer[c] = NoThread => Aliased(c)

InsertStep ==
    \E t \in Threads :
        /\ pc[t] \in {"add_insert", "add_insert_sorted"}
        /\ pc'[t] # pc[t]

\* Every entry stays where it was, on its accumulator, and every accumulator
\* keeps its value.
NothingReplaced ==
    \A c \in Counters :
        /\ \A i \in 1..Len(ctrMap[c]) :
              /\ i <= Len(ctrMap'[c])
              /\ ctrMap'[c][i] = ctrMap[c][i]
        /\ \A p \in 1..Len(sums[c]) :
              p <= Len(sums'[c]) /\ sums'[c][p] = sums[c][p]

C21_AliasInvariant ==
    /\ []AliasInvariant
    /\ [][InsertStep => NothingReplaced]_vars

\* Both insertions of a miss with a list that is not key-sorted are done, the
\* write guard is free, and another add is on the miss path of the counter.
C21_Witness ==
    \E c \in Counters :
        /\ writer[c] = NoThread
        /\ \E i \in 1..Len(ctrMap[c]) :
              ctrMap[c][i].key # SortedIdentity(ctrMap[c][i].key.attributes)
        /\ \E t \in Threads : pc[t] = "add_write" /\ loc[t].ctr = c

\* The second insertion found an entry of an equal key and left it on the
\* same accumulator: the list was key-sorted already.
C21_EqualKeyInsertReached ==
    \E c \in Counters : \E t \in Threads :
        /\ pc[t] = "add_insert_sorted" /\ loc[t].ctr = c
        /\ MapGet(ctrMap[c], SortedIdentity(loc[t].attributes)) = loc[t].point

\* Two adds with the NaN list have left four entries on two accumulators.
C21_NaNEntriesReached ==
    \E c \in Counters :
        /\ writer[c] = NoThread
        /\ Cardinality({i \in 1..Len(ctrMap[c]) :
                            ctrMap[c][i].key.attributes = <<kvNaN>>}) = 4

(***************************************************************************)
(* C22 Every snapshot Counter.collect returns has exactly one row with an  *)
(* empty attribute list, and it is the last row, whatever its value, 0     *)
(* included; the map never holds a key with an empty attribute list, so no *)
(* row drained from the map has empty attributes.                          *)
(***************************************************************************)
EmptyRows(metric) ==
    {i \in 1..Len(metric.metric_points) : metric.metric_points[i][1] = <<>>}

C22_OneZeroRowLast ==
    /\ \A r \in Reports :
          /\ Len(r.metric.metric_points) >= 1
          /\ EmptyRows(r.metric) = {Len(r.metric.metric_points)}
          /\ \A i \in 1..Len(r.drain.keys) : r.drain.keys[i].attributes # <<>>
    /\ \A c \in Counters :
          \A i \in 1..Len(ctrMap[c]) : ctrMap[c][i].key.attributes # <<>>

\* A snapshot with labeled rows whose zero-attribute row is 0, returned after
\* labeled adds only.
C22_Witness ==
    \E r \in Reports :
        /\ LabeledRows(r.metric) # {}
        /\ ZeroRow(r.metric) = <<<<>>, 0>>
        /\ zeroAdded[r.drain.ctr] = 0

\* A snapshot of a counter nothing was added to: the zero-attribute row alone.
C22_EmptyCounterReached ==
    \E r \in Reports : r.metric.metric_points = <<<<<<>>, 0>>>>

\* A snapshot with labeled rows and a zero-attribute row that is not 0.
C22_BothKindsReached ==
    \E r \in Reports :
        /\ LabeledRows(r.metric) # {}
        /\ ZeroRow(r.metric)[2] > 0

=============================================================================
